---- MODULE Spec2Model ----
(***************************************************************************)
(* The Game Boy Advance cartridge of higan (gba/cartridge/cartridge.cpp):  *)
(* the bus router Cartridge::read / Cartridge::write, the configuration    *)
(* done by Cartridge::load, unload, power and the ram_data / ram_size      *)
(* queries.                                                                *)
(*                                                                         *)
(* A uint32 is the pair <<hi, lo>> of its two 16-bit halves, so that every *)
(* 32-bit value of the code (0xffffffff included) is represented exactly.  *)
(* A buffer is a function from byte offsets to bytes.  The buffers of the  *)
(* code have 32 MiB, 32 KiB, 8 KiB and 128 KiB; the model keeps the cells  *)
(* that the enumerated bus accesses can touch (the sets RomCells, ...),    *)
(* at their true offsets.  A cell at or beyond the capacity given to       *)
(* new[] is memory that the buffer does not own.                           *)
(***************************************************************************)
EXTENDS Integers, Sequences, FiniteSets, TLC

----------------------------------------------------------------------------
(* uint32 arithmetic on <<hi, lo>>                                         *)

RECURSIVE BitAnd(_, _)
BitAnd(a, b) ==
  IF a = 0 \/ b = 0 THEN 0
  ELSE (a % 2) * (b % 2) + 2 * BitAnd(a \div 2, b \div 2)

U32(hi, lo) == <<hi, lo>>

AllOnes == U32(65535, 65535)

And32(a, b) == U32(BitAnd(a[1], b[1]), BitAnd(a[2], b[2]))

Lt32(a, b) == a[1] < b[1] \/ (a[1] = b[1] /\ a[2] < b[2])

Le32(a, b) == a = b \/ Lt32(a, b)

\* a + n modulo 2^32, for a small n
Add32(a, n) ==
  LET lo == a[2] + n
  IN  U32((a[1] + lo \div 65536) % 65536, lo % 65536)

\* a - 1 modulo 2^32: 0 - 1 is 0xffffffff
Dec32(a) ==
  IF a[2] > 0 THEN U32(a[1], a[2] - 1)
  ELSE IF a[1] > 0 THEN U32(a[1] - 1, 65535)
  ELSE AllOnes

\* a modulo a power of two n (or the whole of a for n = 0 is never asked)
Mod32(a, n) == And32(a, Dec32(n))

IsPow2(n) ==
  /\ n # U32(0, 0)
  /\ And32(n, Dec32(n)) = U32(0, 0)

----------------------------------------------------------------------------
(* The constants of cartridge.cpp                                          *)

ChipWindow   == U32(3584, 0)        \* 0x0e000000
RomWindow    == U32(511, 65535)     \* 0x01ffffff
EepromMaskLo == U32(3840, 0)        \* 0x0f000000
EepromTestLo == U32(3328, 0)        \* 0x0d000000
EepromMaskHi == U32(4095, 65280)    \* 0x0fffff00
EepromTestHi == U32(3583, 65280)    \* 0x0dffff00
\* the threshold that an image of exactly 16 MiB exceeds
SixteenMiB_inclusive == U32(255, 65535)
SixteenMiB   == U32(256, 0)         \* 16 * 1024 * 1024
RomCapacity      == U32(512, 0)     \* 32 * 1024 * 1024
RamCapacity      == U32(0, 32768)   \* 32 * 1024
EepromCapacity   == U32(0, 8192)    \* 8 * 1024
FlashCapacity    == U32(2, 0)       \* 128 * 1024
NotThree == U32(65535, 65532)       \* ~3
NotOne   == U32(65535, 65534)       \* ~1

Sizes == {"Byte", "Half", "Word"}

----------------------------------------------------------------------------
(* Inputs: the bus accesses and manifests that are enumerated              *)

A_rom0    == U32(2048, 0)       \* 0x08000000: image offset 0
A_rom8M   == U32(2176, 1)       \* 0x08800001: image offset 8 MiB + 1
A_eeLo    == U32(3328, 0)       \* 0x0d000000
A_eeHi    == U32(3583, 65280)   \* 0x0dffff00
A_chip0   == U32(3584, 0)       \* 0x0e000000
A_chip1   == U32(3584, 36865)   \* 0x0e009001
A_unlock1 == U32(65024, 21845)  \* 0xfe005555
A_unlock2 == U32(3584, 10922)   \* 0x0e002aaa
A_open    == U32(4096, 0)       \* 0x10000000

Addrs ==
  {A_rom0, A_rom8M, A_eeLo, A_eeHi, A_chip0, A_chip1, A_unlock1, A_unlock2,
   A_open}

W_AA   == U32(0, 170)           \* 0x000000aa
W_55   == U32(0, 85)            \* 0x00000055
W_90   == U32(0, 144)           \* 0x00000090
W_word == U32(4660, 22076)      \* 0x1234563c
W_A0   == U32(0, 160)           \* 0x000000a0
W_80   == U32(0, 128)           \* 0x00000080
W_30   == U32(0, 48)            \* 0x00000030

\* the manifest's cartridge/rom size; NoRom: the manifest has no rom entry
NoRom    == U32(65535, 1)
RomSizes == {U32(0, 0), U32(128, 0), U32(256, 0), U32(512, 0)}

\* the manifest's cartridge/ram size
RamSizes == {U32(0, 0), U32(0, 32768), U32(1, 0)}

FlashId == <<194, 9>>           \* the id of the manifest: two bytes

\* byte k of image file img
ImageByte(img, off) == (off[2] * 7 + off[1] * 3 + img * 64 + 1) % 256

\* values that memory returned by new[] can hold before it is written
Junk == {0, 205}

\* values of cpu.pipeline.fetch.instruction
Nop == U32(57760, 0)            \* 0xe1a00000
Mov == U32(18112, 18113)        \* 0x46c046c1

----------------------------------------------------------------------------
(* Buffers                                                                 *)

\* the alignment without the line for Half
Align_skips_half(addr, size) ==
  IF size = "Word" THEN And32(addr, NotThree) ELSE addr

Align(addr, size) ==
  IF size = "Word" THEN And32(addr, NotThree)
  ELSE IF size = "Half" THEN And32(addr, NotOne)
  ELSE addr

\* the four bytes of the aligned word around an offset
WordCells(off) == {Add32(And32(off, NotThree), i) : i \in 0..3}

\* the bytes an access of the given width at addr touches
Touched(addr, size) ==
  LET a == Align(addr, size)
  IN  IF size = "Word" THEN {Add32(a, i) : i \in 0..3}
      ELSE IF size = "Half" THEN {a, Add32(a, 1)}
      ELSE {a}

\* Bus::mirror (memory.cpp, not in this file): the offset of the image byte
\* that a window offset shows; a size of zero maps nothing
Mirror(addr, size) ==
  IF size = U32(0, 0) THEN addr ELSE Mod32(addr, size)

RomBase ==
  UNION {WordCells(And32(a, RomWindow)) : a \in {x \in Addrs : Lt32(x, ChipWindow)}}

RomCells ==
  RomBase \cup {Mirror(c, s) : c \in RomBase, s \in RomSizes}

ChipAddrs == {a \in Addrs : And32(a, ChipWindow) = ChipWindow}

RamCells ==
  UNION {WordCells(And32(a, Dec32(s))) : a \in ChipAddrs, s \in RamSizes}

\* the highest record that the enumerated EEPROM transfers address
MaxRecord == 1

\* records 0 .. MaxRecord, and the first byte past the buffer
EepromCells ==
  {U32(0, i) : i \in 0 .. 8 * (MaxRecord + 1) - 1} \cup {EepromCapacity}

FlashCells ==
  {U32(b, a[2]) : a \in ChipAddrs, b \in {0, 1}}
    \cup {FlashCapacity}

\* Cartridge::read(uint8*, uint32, uint32)
read_data(data, addr, size) ==
  LET a == Align(addr, size)
      d(i) == data[Add32(a, i)]
  IN  IF size = "Word" THEN U32(d(3) * 256 + d(2), d(1) * 256 + d(0))
      ELSE IF size = "Half" THEN U32(0, d(1) * 256 + d(0))
      ELSE U32(0, d(0))

\* the switch with a break after each case
write_data_breaks(data, addr, size, word) ==
  LET a == Align(addr, size)
  IN  CASE size = "Word" ->
             ((Add32(a, 3) :> (word[1] \div 256)) @@ (Add32(a, 2) :> (word[1] % 256)))
               @@ data
        [] size = "Half" -> (Add32(a, 1) :> (word[2] \div 256)) @@ data
        [] OTHER -> (a :> (word[2] % 256)) @@ data

\* Cartridge::write(uint8*, uint32, uint32, uint32): the switch falls through
write_data(data, addr, size, word) ==
  LET a  == Align(addr, size)
      hi == IF size = "Word"
            THEN (Add32(a, 3) :> (word[1] \div 256)) @@ (Add32(a, 2) :> (word[1] % 256))
            ELSE <<>>
      mid == IF size \in {"Word", "Half"}
             THEN (Add32(a, 1) :> (word[2] \div 256))
             ELSE <<>>
      lo == (a :> (word[2] % 256))
  IN  IF size \in Sizes THEN (hi @@ mid @@ lo) @@ data ELSE data

\* load without the fill loop
Fill_skipped(data, size) == data

\* for(n = 0; n < size; n++) data[n] = 0xff
Fill(data, size) ==
  [c \in DOMAIN data |-> IF Lt32(c, size) THEN 255 ELSE data[c]]

----------------------------------------------------------------------------
(* The EEPROM engine (eeprom.cpp, included by cartridge.cpp but not part   *)
(* of this file): the serial protocol of the specification, section 4.2    *)

\* latency bits sent before the data of a read
DummyBits == 4

RECURSIVE BitsValue(_)
BitsValue(bits) ==
  IF bits = <<>> THEN 0
  ELSE 2 * BitsValue(SubSeq(bits, 1, Len(bits) - 1)) + bits[Len(bits)]

\* bit i (0 = most significant) of a byte
BitOf(byte, i) == (byte \div (2 ^ (7 - i))) % 2

Records(e) == (e.size[1] * 65536 + e.size[2]) \div 8

eeprom_power(e) ==
  [e EXCEPT !.mode = "Idle", !.shift = <<>>, !.opcode = "none",
            !.address = 0, !.count = 0]

\* the 8-byte record at the latched address is overwritten by 64 bits
StoreRecord(e, bits) ==
  [c \in DOMAIN e.data |->
     IF c[1] = 0 /\ c[2] \div 8 = e.address
     THEN BitsValue(SubSeq(bits, 8 * (c[2] % 8) + 1, 8 * (c[2] % 8) + 8))
     ELSE e.data[c]]

\* detect: the width taken when bits = 0 leaves it to the first transaction
eeprom_write(e, bit, detect) ==
  LET sh == Append(e.shift, bit)
  IN  CASE e.mode = "Idle" ->
             IF bit = 1
             THEN [e EXCEPT !.mode = "ReceivingCommand", !.shift = <<>>]
             ELSE e
        [] e.mode = "ReceivingCommand" ->
             IF Len(sh) < 2 THEN [e EXCEPT !.shift = sh]
             ELSE IF sh[1] = 1
             THEN [e EXCEPT !.mode = "ReceivingAddress", !.shift = <<>>,
                            !.opcode = IF sh[2] = 1 THEN "Read" ELSE "Write",
                            !.bits = IF e.bits = 0 THEN detect ELSE e.bits]
             ELSE eeprom_power(e)
        [] e.mode = "ReceivingAddress" ->
             IF Len(sh) < e.bits THEN [e EXCEPT !.shift = sh]
             ELSE [e EXCEPT !.address = BitsValue(sh) % Records(e),
                            !.shift = <<>>, !.count = 0,
                            !.mode = IF e.opcode = "Read"
                                     THEN "SendingDummyBits"
                                     ELSE "ReceivingWriteData"]
        [] e.mode = "ReceivingWriteData" ->
             IF e.count = 64 THEN eeprom_power(e)      \* the stop bit
             ELSE IF Len(sh) < 64 THEN [e EXCEPT !.shift = sh, !.count = Len(sh)]
             ELSE [e EXCEPT !.data = StoreRecord(e, sh), !.shift = <<>>,
                            !.count = 64]
        [] OTHER -> eeprom_power(e)

\* <<the bit returned, the engine afterwards>>
eeprom_read(e) ==
  CASE e.mode = "SendingDummyBits" ->
         <<1, IF e.count + 1 < DummyBits
               THEN [e EXCEPT !.count = e.count + 1]
               ELSE [e EXCEPT !.mode = "SendingReadData", !.count = 0]>>
    [] e.mode = "SendingReadData" ->
         <<BitOf(e.data[U32(0, 8 * e.address + e.count \div 8)], e.count % 8),
           IF e.count + 1 < 64
           THEN [e EXCEPT !.count = e.count + 1]
           ELSE eeprom_power(e)>>
    [] OTHER -> <<1, e>>

----------------------------------------------------------------------------
(* The FlashROM engine (flashrom.cpp, included by cartridge.cpp but not    *)
(* part of this file): the command sequences of the specification, 4.3     *)

Unlock1    == 21845      \* 0x5555
Unlock2    == 10922      \* 0x2aaa
SectorSize == 4096

flashrom_power(f) ==
  [f EXCEPT !.mode = "Ready", !.step = 0, !.identification = FALSE, !.bank = 0]

\* the cell of the selected bank that a bus address names
FlashCell(f, addr) == U32(f.bank, addr[2])

Erase(f, cells) ==
  [c \in DOMAIN f.data |-> IF c \in cells THEN 255 ELSE f.data[c]]

flashrom_read(f, addr) ==
  IF f.identification /\ addr[2] \in {0, 1}
  THEN U32(0, f.id[addr[2] + 1])
  ELSE U32(0, f.data[FlashCell(f, addr)])

flashrom_write(f, addr, byte) ==
  LET off   == addr[2]
      ready == [f EXCEPT !.mode = "Ready", !.step = 0]
      cell  == FlashCell(f, addr)
  IN  CASE f.mode = "Ready" ->
             IF off = Unlock1 /\ byte = 170
             THEN [f EXCEPT !.mode = "CommandByte1"] ELSE ready
        [] f.mode = "CommandByte1" ->
             IF off = Unlock2 /\ byte = 85
             THEN [f EXCEPT !.mode = "CommandByte2"] ELSE ready
        [] f.mode = "CommandByte2" ->
             IF off # Unlock1 THEN ready
             ELSE CASE byte = 144 -> [ready EXCEPT !.identification = TRUE]
                    [] byte = 240 -> [ready EXCEPT !.identification = FALSE]
                    [] byte = 128 -> [f EXCEPT !.mode = "Erasing", !.step = 0]
                    [] byte = 160 -> [f EXCEPT !.mode = "ProgrammingByte"]
                    [] byte = 176 /\ Le32(FlashCapacity, f.size) ->
                         [f EXCEPT !.mode = "BankSelect"]
                    [] OTHER -> ready
        [] f.mode = "Erasing" ->
             CASE f.step = 0 /\ off = Unlock1 /\ byte = 170 -> [f EXCEPT !.step = 1]
               [] f.step = 1 /\ off = Unlock2 /\ byte = 85 -> [f EXCEPT !.step = 2]
               [] f.step = 2 /\ byte = 48 ->
                    [ready EXCEPT !.data =
                       Erase(f, {c \in DOMAIN f.data :
                                   /\ c[1] = f.bank
                                   /\ c[2] \div SectorSize = off \div SectorSize})]
               [] f.step = 2 /\ byte = 16 /\ off = Unlock1 ->
                    [ready EXCEPT !.data =
                       Erase(f, {c \in DOMAIN f.data : c[1] = f.bank})]
               [] OTHER -> ready
        [] f.mode = "ProgrammingByte" ->
             [ready EXCEPT !.data[cell] = BitAnd(f.data[cell], byte)]
        [] f.mode = "BankSelect" ->
             IF off = 0 THEN [ready EXCEPT !.bank = byte % 2] ELSE ready
        [] OTHER -> ready

----------------------------------------------------------------------------
(* The cartridge                                                           *)

VARIABLES
  loaded,        \* Cartridge::loaded
  has_sram,      \* Cartridge::has_sram
  has_eeprom,    \* Cartridge::has_eeprom
  has_flashrom,  \* Cartridge::has_flashrom
  rom,           \* Cartridge::rom: data, size
  ram,           \* Cartridge::ram: data, size, mask
  eeprom,        \* Cartridge::eeprom: data, size, bits, mask, test, engine
  flashrom,      \* Cartridge::flashrom: data, size, id, engine
  memory,        \* Cartridge::memory: the ids appended by load
  rom_size,      \* the rom_size that the last load computed
  rom_image,     \* the image file that the host delivered last (0: none)
  fault,         \* an access outside a buffer has stopped the process
  nloads,        \* calls of load so far
  nwrites,       \* bus writes so far
  last,          \* the call that has returned and that the caller has not yet taken
  script         \* the transfer that the running program is carrying out

vars ==
  <<loaded, has_sram, has_eeprom, has_flashrom, rom, ram, eeprom, flashrom,
    memory, rom_size, rom_image, fault, nloads, nwrites, last, script>>

\* the configuration that decides where an address is routed
config == <<has_sram, has_eeprom, has_flashrom, ram.mask, eeprom.mask, eeprom.test>>

\* the contents of the four buffers
buffers == <<rom.data, ram.data, eeprom.data, flashrom.data>>

\* calls of load enumerated in one run
MaxLoads == 2

\* bus writes enumerated in one run
MaxWrites == 2

\* bus writes enumerated in one run of SpecSession
MaxSessionWrites == 4

Zero == U32(0, 0)

\* no call has returned; the fields of a call: the operation, its arguments
\* (instruction is cpu.pipeline.fetch.instruction when read was called), the
\* value returned, where the router sent it, the buffer offsets it touched,
\* and the modes of the two engines (and whether the FlashROM was in
\* identification mode) when it was called
Idle ==
  [op |-> "idle", addr |-> Zero, size |-> "Byte", word |-> Zero,
   instruction |-> Zero, ret |-> Zero, dest |-> "none", touched |-> {},
   engines |-> <<"Idle", "Ready", FALSE>>]

Returned(op) ==
  [Idle EXCEPT !.op = op, !.engines = <<eeprom.mode, flashrom.mode, flashrom.identification>>]

\* the running program is in no transfer
NoScript ==
  [kind |-> "none", abits |-> 0, record |-> 0, pattern |-> 0, target |-> Zero,
   first |-> Zero, second |-> Zero, pc |-> 0]

\* Cartridge::Cartridge, on the zero-initialised global object
Init ==
  /\ loaded = FALSE
  /\ has_sram = FALSE
  /\ has_eeprom = FALSE
  /\ has_flashrom = FALSE
  /\ \E j \in Junk :
       /\ rom = [data |-> [c \in RomCells |-> j], size |-> RomCapacity]
       /\ ram = [data |-> [c \in RamCells |-> j], size |-> RamCapacity,
                 mask |-> Zero]
       /\ eeprom = [data |-> [c \in EepromCells |-> j], size |-> EepromCapacity,
                    bits |-> 0, mask |-> Zero, test |-> Zero,
                    mode |-> "Idle", shift |-> <<>>, opcode |-> "none",
                    address |-> 0, count |-> 0]
       /\ flashrom = [data |-> [c \in FlashCells |-> j], size |-> FlashCapacity,
                      id |-> <<0, 0>>, mode |-> "Ready", step |-> 0,
                      identification |-> FALSE, bank |-> 0]
  /\ memory = <<>>
  /\ rom_size = Zero
  /\ rom_image = 0
  /\ fault = FALSE
  /\ nloads = 0
  /\ nwrites = 0
  /\ last = Idle
  /\ script = NoScript

\* interface->loadRequest(ID::ROM, ...): the host copies the image file
LoadImage(data, img, size) ==
  [c \in DOMAIN data |-> IF Lt32(c, size) THEN ImageByte(img, c) ELSE data[c]]

\* load without the mirroring loop
MirrorImage_skipped(data, size, capacity) == data

\* for(addr = rom_size; addr < rom.size; addr++)
\*   rom.data[addr] = rom.data[Bus::mirror(addr, rom_size)];
\* the source offsets are below rom_size (or addr itself), never written before
MirrorImage(data, size, capacity) ==
  [c \in DOMAIN data |->
     IF Le32(size, c) /\ Lt32(c, capacity) THEN data[Mirror(c, size)] ELSE data[c]]

\* the fill loop of load runs past the buffer that new[] returned
FillOverruns(cfg) ==
  \/ cfg.type \in {"SRAM", "FRAM"} /\ Lt32(RamCapacity, cfg.size)
  \/ cfg.type = "EEPROM" /\ Lt32(EepromCapacity, cfg.size)
  \/ cfg.type = "FlashROM" /\ Lt32(FlashCapacity, cfg.size)

\* load without the three assignments of false
cleared_kept(flag) == flag

\* has_sram = false; has_eeprom = false; has_flashrom = false;
cleared(flag) == FALSE

\* Cartridge::load: rs is the manifest's rom size (NoRom: no rom entry), img
\* the image file, cfg the manifest's ram entry
load(rs, img, cfg) ==
  LET size == IF rs = NoRom THEN Zero ELSE rs
      big  == Lt32(SixteenMiB, size)
  IN  /\ ~fault
      /\ last = Idle
      /\ nloads' = nloads + 1
      /\ rom_size' = size
      /\ rom_image' = IF rs = NoRom THEN rom_image ELSE img
      /\ rom' = IF rs = NoRom THEN rom
                ELSE [rom EXCEPT !.data =
                        MirrorImage(LoadImage(rom.data, img, size), size, rom.size)]
      /\ has_sram' = (cleared(has_sram) \/ cfg.type \in {"SRAM", "FRAM"})
      /\ has_eeprom' = (cleared(has_eeprom) \/ cfg.type = "EEPROM")
      /\ has_flashrom' = (cleared(has_flashrom) \/ cfg.type = "FlashROM")
      /\ ram' = IF cfg.type \in {"SRAM", "FRAM"}
                THEN [data |-> Fill(ram.data, cfg.size), size |-> cfg.size,
                      mask |-> Dec32(cfg.size)]
                ELSE ram
      /\ eeprom' =
           IF cfg.type = "EEPROM"
           THEN LET sz == IF cfg.size = Zero THEN U32(0, 8192) ELSE cfg.size
                IN  [eeprom EXCEPT
                       !.size = sz,
                       !.bits = IF cfg.size = Zero THEN 0
                                ELSE IF Le32(cfg.size, U32(0, 512)) THEN 6 ELSE 14,
                       !.mask = IF big THEN EepromMaskHi ELSE EepromMaskLo,
                       !.test = IF big THEN EepromTestHi ELSE EepromTestLo,
                       !.data = Fill(eeprom.data, sz)]
           ELSE eeprom
      /\ flashrom' =
           IF cfg.type = "FlashROM"
           THEN [flashrom EXCEPT !.id = FlashId, !.size = cfg.size,
                                 !.data = Fill(flashrom.data, cfg.size)]
           ELSE flashrom
      /\ memory' = IF cfg.type = "none" THEN memory
                   ELSE Append(memory, IF cfg.type \in {"SRAM", "FRAM"} THEN "RAM"
                                       ELSE cfg.type)
      /\ loaded' = TRUE
      /\ fault' \in (IF FillOverruns(cfg) THEN BOOLEAN ELSE {FALSE})
      /\ last' = Returned("load")
      /\ UNCHANGED nwrites

\* Cartridge::unload
unload ==
  /\ ~fault
  /\ last = Idle
  /\ IF loaded = FALSE
     THEN UNCHANGED <<loaded, memory>>
     ELSE /\ loaded' = FALSE
          /\ memory' = <<>>
  /\ last' = Returned("unload")
  /\ UNCHANGED <<has_sram, has_eeprom, has_flashrom, rom, ram, eeprom, flashrom,
                 rom_size, rom_image, fault, nloads, nwrites>>

\* power that also forgets the FlashROM
power_unconfigures ==
  /\ ~fault
  /\ last = Idle
  /\ eeprom' = eeprom_power(eeprom)
  /\ flashrom' = flashrom_power(flashrom)
  /\ has_flashrom' = FALSE
  /\ last' = Returned("power")
  /\ UNCHANGED <<loaded, has_sram, has_eeprom, rom, ram, memory,
                 rom_size, rom_image, fault, nloads, nwrites>>

\* power without flashrom.power()
power_skips_flashrom ==
  /\ ~fault
  /\ last = Idle
  /\ eeprom' = eeprom_power(eeprom)
  /\ last' = Returned("power")
  /\ UNCHANGED <<loaded, has_sram, has_eeprom, has_flashrom, rom, ram, flashrom,
                 memory, rom_size, rom_image, fault, nloads, nwrites>>

\* Cartridge::power
power ==
  /\ ~fault
  /\ last = Idle
  /\ eeprom' = eeprom_power(eeprom)
  /\ flashrom' = flashrom_power(flashrom)
  /\ last' = Returned("power")
  /\ UNCHANGED <<loaded, has_sram, has_eeprom, has_flashrom, rom, ram, memory,
                 rom_size, rom_image, fault, nloads, nwrites>>

\* ram_data without the EEPROM line
ram_data_skips_eeprom ==
  IF has_sram THEN "ram.data"
  ELSE IF has_flashrom THEN "flashrom.data"
  ELSE "nullptr"

\* Cartridge::ram_data: the buffer handed to the host
ram_data ==
  IF has_sram THEN "ram.data"
  ELSE IF has_eeprom THEN "eeprom.data"
  ELSE IF has_flashrom THEN "flashrom.data"
  ELSE "nullptr"

\* Cartridge::ram_size
ram_size ==
  IF has_sram THEN ram.size
  ELSE IF has_eeprom THEN eeprom.size
  ELSE IF has_flashrom THEN flashrom.size
  ELSE Zero

\* the if chain of read with the image tested before the storage chips
read_dest_image_first(addr) ==
  IF Lt32(addr, ChipWindow) THEN "rom"
  ELSE IF has_sram /\ And32(addr, ChipWindow) = ChipWindow THEN "ram"
  ELSE IF has_eeprom /\ And32(addr, eeprom.mask) = eeprom.test THEN "eeprom"
  ELSE IF has_flashrom /\ And32(addr, ChipWindow) = ChipWindow THEN "flashrom"
  ELSE "open"

\* the if chain of Cartridge::read(uint32, uint32)
read_dest(addr) ==
  IF has_sram /\ And32(addr, ChipWindow) = ChipWindow THEN "ram"
  ELSE IF has_eeprom /\ And32(addr, eeprom.mask) = eeprom.test THEN "eeprom"
  ELSE IF has_flashrom /\ And32(addr, ChipWindow) = ChipWindow THEN "flashrom"
  ELSE IF Lt32(addr, ChipWindow) THEN "rom"
  ELSE "open"

\* the if chain of write without the line for the EEPROM
write_dest_skips_eeprom(addr) ==
  IF has_sram /\ And32(addr, ChipWindow) = ChipWindow THEN "ram"
  ELSE IF has_flashrom /\ And32(addr, ChipWindow) = ChipWindow THEN "flashrom"
  ELSE "none"

\* the if chain of write without the line for the FlashROM
write_dest_skips_flashrom(addr) ==
  IF has_sram /\ And32(addr, ChipWindow) = ChipWindow THEN "ram"
  ELSE IF has_eeprom /\ And32(addr, eeprom.mask) = eeprom.test THEN "eeprom"
  ELSE "none"

\* the if chain of write with the FlashROM line not testing has_flashrom
write_dest_flashrom_always(addr) ==
  IF has_sram /\ And32(addr, ChipWindow) = ChipWindow THEN "ram"
  ELSE IF has_eeprom /\ And32(addr, eeprom.mask) = eeprom.test THEN "eeprom"
  ELSE IF And32(addr, ChipWindow) = ChipWindow THEN "flashrom"
  ELSE "none"

\* the if chain of Cartridge::write(uint32, uint32, uint32)
write_dest(addr) ==
  IF has_sram /\ And32(addr, ChipWindow) = ChipWindow THEN "ram"
  ELSE IF has_eeprom /\ And32(addr, eeprom.mask) = eeprom.test THEN "eeprom"
  ELSE IF has_flashrom /\ And32(addr, ChipWindow) = ChipWindow THEN "flashrom"
  ELSE "none"

\* the offset handed to read(ram.data, ...) and write(ram.data, ...)
ram_offset(addr) == And32(addr, ram.mask)

\* the offset handed to read(rom.data, ...)
rom_offset(addr) == And32(addr, RomWindow)

\* the bytes of a buffer that an access to dest touches
touches(dest, addr, size) ==
  CASE dest = "ram" -> Touched(ram_offset(addr), size)
    [] dest = "rom" -> Touched(rom_offset(addr), size)
    [] OTHER -> {}

\* some byte touched is not in the buffer that the constructor allocated
outside(dest, cells) ==
  \/ dest = "ram" /\ \E c \in cells : ~Lt32(c, RamCapacity)
  \/ dest = "rom" /\ \E c \in cells : ~Lt32(c, RomCapacity)

\* the value that Cartridge::read(uint32, uint32) returns
read_ret(addr, size, instruction) ==
  LET dest == read_dest(addr)
  IN  CASE dest = "ram" -> read_data(ram.data, ram_offset(addr), size)
        [] dest = "eeprom" -> U32(0, eeprom_read(eeprom)[1])
        [] dest = "flashrom" -> flashrom_read(flashrom, addr)
        [] dest = "rom" -> read_data(rom.data, rom_offset(addr), size)
        [] OTHER -> instruction

\* Cartridge::read(uint32, uint32); instruction is the value of
\* cpu.pipeline.fetch.instruction at the call
read(addr, size, instruction) ==
  LET dest  == read_dest(addr)
      cells == touches(dest, addr, size)
      er    == eeprom_read(eeprom)
      ret   == read_ret(addr, size, instruction)
  IN  /\ ~fault
      /\ last = Idle
      /\ eeprom' = IF dest = "eeprom" THEN er[2] ELSE eeprom
      /\ fault' \in (IF outside(dest, cells) THEN BOOLEAN ELSE {FALSE})
      /\ last' = [Returned("read") EXCEPT !.addr = addr, !.size = size,
                    !.instruction = instruction, !.ret = ret, !.dest = dest,
                    !.touched = cells]
      /\ UNCHANGED <<loaded, has_sram, has_eeprom, has_flashrom, rom, ram,
                     flashrom, memory, rom_size, rom_image, nloads, nwrites>>

\* the low byte handed to the EEPROM
eeprom_bit_byte(word) == word[2] % 256

\* word & 1
eeprom_bit(word) == word[2] % 2

\* Cartridge::write(uint32, uint32, uint32); detect is the address width that
\* the transfer in progress shows to an EEPROM that has to detect its size
write_detect(addr, size, word, detect) ==
  LET dest  == write_dest(addr)
      cells == touches(dest, addr, size)
  IN  /\ ~fault
      /\ last = Idle
      /\ nwrites' = nwrites + 1
      /\ ram' = IF dest = "ram"
                THEN [ram EXCEPT !.data = write_data(ram.data, ram_offset(addr), size, word)]
                ELSE ram
      /\ eeprom' = IF dest = "eeprom"
                   THEN eeprom_write(eeprom, eeprom_bit(word), detect)
                   ELSE eeprom
      /\ flashrom' = IF dest = "flashrom"
                     THEN flashrom_write(flashrom, addr, word[2] % 256)
                     ELSE flashrom
      /\ fault' \in (IF outside(dest, cells) THEN BOOLEAN ELSE {FALSE})
      /\ last' = [Returned("write") EXCEPT !.addr = addr, !.size = size,
                    !.word = word, !.dest = dest, !.touched = cells]
      /\ UNCHANGED <<loaded, has_sram, has_eeprom, has_flashrom, rom, memory,
                     rom_size, rom_image, nloads>>

\* Cartridge::write(uint32, uint32, uint32)
write(addr, size, word) ==
  \E detect \in {6, 14} : write_detect(addr, size, word, detect)

\* the caller takes what the call returned and goes on
resume ==
  /\ last # Idle
  /\ last' = Idle
  /\ UNCHANGED <<loaded, has_sram, has_eeprom, has_flashrom, rom, ram, eeprom,
                 flashrom, memory, rom_size, rom_image, fault, nloads, nwrites>>

\* the manifests enumerated: rom size, image file, ram entry
LoadInputs ==
  {<<NoRom, 1, [type |-> "none", size |-> Zero]>>,
   <<U32(128, 0), 1, [type |-> "SRAM", size |-> U32(0, 32768)]>>,
   <<Zero, 2, [type |-> "FRAM", size |-> Zero]>>,
   <<U32(128, 0), 1, [type |-> "FRAM", size |-> U32(1, 0)]>>,
   <<U32(256, 0), 2, [type |-> "EEPROM", size |-> U32(0, 512)]>>,
   <<U32(512, 0), 1, [type |-> "EEPROM", size |-> Zero]>>,
   <<U32(128, 0), 1, [type |-> "FlashROM", size |-> U32(1, 0)]>>}

\* the bus reads enumerated: address, width, cpu.pipeline.fetch.instruction
ReadInputs ==
  {<<A_rom0, "Word", Nop>>, <<A_rom8M, "Byte", Nop>>,
   <<A_rom8M, "Half", Nop>>, <<A_eeLo, "Half", Nop>>,
   <<A_eeHi, "Byte", Nop>>, <<A_chip0, "Byte", Nop>>, <<A_chip1, "Word", Nop>>,
   <<A_unlock1, "Half", Nop>>, <<A_open, "Word", Nop>>, <<A_open, "Byte", Mov>>}

\* the bus writes enumerated: address, width, word
WriteInputs ==
  {<<A_unlock1, "Byte", W_AA>>, <<A_unlock2, "Byte", W_55>>,
   <<A_unlock1, "Byte", W_90>>, <<A_chip1, "Word", W_word>>,
   <<A_eeLo, "Half", W_AA>>, <<A_eeHi, "Byte", W_55>>}

Next ==
  \/ /\ nloads < MaxLoads
     /\ \E in \in LoadInputs : load(in[1], in[2], in[3])
     /\ UNCHANGED script
  \/ unload /\ UNCHANGED script
  \/ power /\ UNCHANGED script
  \/ /\ \E in \in ReadInputs : read(in[1], in[2], in[3])
     /\ UNCHANGED script
  \/ /\ nwrites < MaxWrites
     /\ \E in \in WriteInputs : write(in[1], in[2], in[3])
     /\ UNCHANGED script
  \/ resume /\ UNCHANGED script

Spec == Init /\ [][Next]_vars

\* one cartridge, longer sequences of bus writes
NextSession ==
  \/ /\ nloads = 0
     /\ \E in \in LoadInputs : load(in[1], in[2], in[3])
     /\ UNCHANGED script
  \/ power /\ UNCHANGED script
  \/ /\ \E in \in ReadInputs : read(in[1], in[2], in[3])
     /\ UNCHANGED script
  \/ /\ nwrites < MaxSessionWrites
     /\ \E in \in WriteInputs : write(in[1], in[2], in[3])
     /\ UNCHANGED script
  \/ resume /\ UNCHANGED script

SpecSession == Init /\ [][NextSession]_vars

----------------------------------------------------------------------------
(* Transfers: the running program carries out a whole EEPROM transaction   *)
(* or a whole FlashROM command sequence, one bus access after the other    *)

\* one bus access of a transfer: a write of val or a read, to the EEPROM
\* window or to a FlashROM address; tag and idx say what the access is for
Access(op, to, addr, val, tag, idx) ==
  [op |-> op, to |-> to, addr |-> addr, val |-> val, tag |-> tag, idx |-> idx]

\* the 64 data bits of a record, first bit first
Patterns == {1, 2}

PatternBytes == <<18, 52, 86, 120, 154, 188, 222, 241>>

DataBits(p) ==
  [i \in 1 .. 64 |->
     IF p = 1 THEN 1
     ELSE (PatternBytes[(i - 1) \div 8 + 1] \div (2 ^ (7 - ((i - 1) % 8)))) % 2]

\* the n address bits that encode record k, most significant first
AddressBits(n, k) == [i \in 1 .. n |-> (k \div (2 ^ (n - i))) % 2]

EepromHeader(n, k, opcode) ==
  <<Access("write", "eeprom", Zero, 1, "start", 0),
    Access("write", "eeprom", Zero, 1, "opcode", 1),
    Access("write", "eeprom", Zero, opcode, "opcode", 2)>>
    \o [i \in 1 .. n |->
          Access("write", "eeprom", Zero, AddressBits(n, k)[i], "address", i)]

\* start bit, opcode 10, address, 64 data bits, stop bit
EepromWriteOps(n, k, p) ==
  EepromHeader(n, k, 0)
    \o [i \in 1 .. 64 |->
          Access("write", "eeprom", Zero, DataBits(p)[i], "data", i)]
    \o <<Access("write", "eeprom", Zero, 0, "stop", 0)>>

\* start bit, opcode 11, address, then the dummy bits and 64 data bits read
EepromReadOps(n, k) ==
  EepromHeader(n, k, 1)
    \o [i \in 1 .. DummyBits |-> Access("read", "eeprom", Zero, 1, "dummy", i)]
    \o [i \in 1 .. 64 |-> Access("read", "eeprom", Zero, 0, "data", i)]

\* AA at 0x5555, 55 at 0x2aaa, A0 at 0x5555, the byte at x
ProgramOps(x, w) ==
  <<Access("write", "flashrom", A_unlock1, W_AA[2], "unlock", 1),
    Access("write", "flashrom", A_unlock2, W_55[2], "unlock", 2),
    Access("write", "flashrom", A_unlock1, W_A0[2], "command", 3),
    Access("write", "flashrom", x, w[2], "program", 4)>>

\* AA, 55, 80, AA, 55, then 30 at an address of the sector
EraseSectorOps(x) ==
  <<Access("write", "flashrom", A_unlock1, W_AA[2], "unlock", 1),
    Access("write", "flashrom", A_unlock2, W_55[2], "unlock", 2),
    Access("write", "flashrom", A_unlock1, W_80[2], "command", 3),
    Access("write", "flashrom", A_unlock1, W_AA[2], "unlock", 4),
    Access("write", "flashrom", A_unlock2, W_55[2], "unlock", 5),
    Access("write", "flashrom", x, W_30[2], "erase", 6)>>

Probe(x) == <<Access("read", "flashrom", x, 0, "probe", 0)>>

\* the other of the two FlashROM addresses: it lies in another sector
Other(x) == IF x = A_chip0 THEN A_chip1 ELSE A_chip0

\* the accesses of a transfer, in order
Ops(t) ==
  CASE t.kind = "eeprom" ->
         EepromWriteOps(t.abits, t.record, t.pattern)
           \o EepromReadOps(t.abits, t.record)
    [] t.kind = "flashrom" ->
         ProgramOps(t.target, t.first) \o Probe(t.target)
           \o ProgramOps(t.target, t.second) \o Probe(t.target)
           \o ProgramOps(Other(t.target), t.first) \o Probe(Other(t.target))
           \o EraseSectorOps(t.target)
           \o Probe(t.target) \o Probe(Other(t.target))
    [] OTHER -> <<>>

\* the transfers that a program can start on the loaded cartridge
Transfers ==
  IF has_eeprom
  THEN {[NoScript EXCEPT !.kind = "eeprom", !.abits = n, !.record = k,
                         !.pattern = p] :
          n \in (IF eeprom.bits = 0 THEN {6, 14} ELSE {eeprom.bits}),
          k \in 0 .. MaxRecord, p \in Patterns}
  ELSE IF has_flashrom
  THEN {[NoScript EXCEPT !.kind = "flashrom", !.target = x, !.first = w1,
                         !.second = w2] :
          x \in {A_chip0, A_chip1}, w1 \in {W_word, W_AA}, w2 \in {W_55, W_90}}
  ELSE {}

\* the program starts a transfer
begin ==
  /\ ~fault
  /\ last = Idle
  /\ loaded
  /\ script.kind = "none"
  /\ script' \in Transfers
  /\ UNCHANGED <<loaded, has_sram, has_eeprom, has_flashrom, rom, ram, eeprom,
                 flashrom, memory, rom_size, rom_image, fault, nloads, nwrites,
                 last>>

\* the words whose bit 0 is the given bit
BitWords(bit) == {U32(0, bit), U32(65535, 65534 + bit)}

\* the program issues the next access of its transfer: an access to the
\* EEPROM at any address of its window, with any width and any bits 1-31
step ==
  /\ script.pc < Len(Ops(script))
  /\ LET o == Ops(script)[script.pc + 1]
     IN  \/ /\ o.op = "write" /\ o.to = "eeprom"
            /\ \E a \in {A_eeLo, A_eeHi}, size \in Sizes, word \in BitWords(o.val) :
                 /\ And32(a, eeprom.mask) = eeprom.test
                 /\ write_detect(a, size, word, script.abits)
         \/ /\ o.op = "read" /\ o.to = "eeprom"
            /\ \E a \in {A_eeLo, A_eeHi}, size \in Sizes :
                 /\ And32(a, eeprom.mask) = eeprom.test
                 /\ read(a, size, Nop)
         \/ /\ o.op = "write" /\ o.to = "flashrom"
            /\ write_detect(o.addr, "Byte", U32(0, o.val), script.abits)
         \/ /\ o.op = "read" /\ o.to = "flashrom"
            /\ read(o.addr, "Byte", Nop)
  /\ script' = [script EXCEPT !.pc = @ + 1]

\* one cartridge with a storage chip that has a protocol, and one transfer
NextScript ==
  \/ /\ nloads = 0
     /\ \E in \in LoadInputs :
          /\ in[3].type \in {"EEPROM", "FlashROM"}
          /\ load(in[1], in[2], in[3])
     /\ UNCHANGED script
  \/ begin
  \/ step
  \/ resume /\ UNCHANGED script

SpecScript == Init /\ [][NextScript]_vars

----------------------------------------------------------------------------
(* Properties                                                              *)

InChipWindow(a) == And32(a, U32(3584, 0)) = U32(3584, 0)

InEepromWindow(a) == And32(a, eeprom.mask) = eeprom.test

BelowChipWindow(a) == Lt32(a, U32(3584, 0))

\* C1: a read is served by exactly one destination, the first that matches
\* in the order battery RAM (has_sram and the address in the 0x0e000000
\* window, at offset a & ram.mask), EEPROM (has_eeprom and a & eeprom.mask =
\* eeprom.test), FlashROM (has_flashrom and the 0x0e000000 window), the image
\* at a & 0x01ffffff (a < 0x0e000000), and else the open bus: the last
\* instruction the processor fetched.
C1_ReadFirstMatch ==
  last.op = "read" =>
    LET a      == last.addr
        sram   == has_sram /\ InChipWindow(a)
        serial == ~sram /\ has_eeprom /\ InEepromWindow(a)
        flash  == ~sram /\ ~serial /\ has_flashrom /\ InChipWindow(a)
        image  == ~sram /\ ~serial /\ ~flash /\ BelowChipWindow(a)
        open   == ~sram /\ ~serial /\ ~flash /\ ~image
    IN  /\ sram => /\ last.dest = "ram"
                   /\ last.touched = Touched(And32(a, ram.mask), last.size)
                   /\ last.ret = read_data(ram.data, And32(a, ram.mask), last.size)
        /\ serial => /\ last.dest = "eeprom"
                     /\ last.touched = {}
        /\ flash => /\ last.dest = "flashrom"
                    /\ last.ret = flashrom_read(flashrom, a)
        /\ image => /\ last.dest = "rom"
                    /\ last.touched = Touched(And32(a, U32(511, 65535)), last.size)
                    /\ last.ret = read_data(rom.data, And32(a, U32(511, 65535)), last.size)
        /\ open => /\ last.dest = "open"
                   /\ last.ret = last.instruction

\* C1 witness: a read below 0x0e000000 that the EEPROM serves, not the image
C1_EepromBeforeImage ==
  /\ last.op = "read"
  /\ last.dest = "eeprom"
  /\ BelowChipWindow(last.addr)

\* C2: every byte that a battery-RAM or image access touches lies inside the
\* buffer the constructor allocated (32 KiB, 32 MiB), whatever size the
\* manifest gave.
C2_AccessInsideBuffer ==
  last.op \in {"read", "write"} =>
    /\ last.dest = "ram" => \A c \in last.touched : Lt32(c, U32(0, 32768))
    /\ last.dest = "rom" => \A c \in last.touched : Lt32(c, U32(512, 0))

\* no storage chip is configured, or battery RAM of size zero was requested
Misconfigured ==
  \/ ~has_sram /\ ~has_eeprom /\ ~has_flashrom
  \/ has_sram /\ ram.size = Zero

\* C3: with battery RAM of size zero, or with no storage chip, a bus write to
\* an address in the 0x0e000000 window changes no buffer byte and no engine
\* state, and a bus read of such an address returns the open-bus value.
C3_MisuseIsNormalized ==
  [][/\ (/\ last'.op = "write"
         /\ InChipWindow(last'.addr)
         /\ Misconfigured)
          => /\ buffers' = buffers
             /\ eeprom' = eeprom
             /\ flashrom' = flashrom
             /\ last'.touched = {}
     /\ (/\ last'.op = "read"
         /\ InChipWindow(last'.addr)
         /\ Misconfigured)
          => last'.ret = last'.instruction]_vars

\* an image of a non-zero power-of-two size within the capacity is loaded
ImageLoaded ==
  /\ rom_image # 0
  /\ IsPow2(rom_size)
  /\ Le32(rom_size, U32(512, 0))

\* the image buffer repeats the image: byte a is byte a mod logicalSize
Mirrored ==
  \A c \in DOMAIN rom.data :
    Lt32(c, U32(512, 0)) =>
      /\ rom.data[c] = rom.data[Mod32(c, rom_size)]
      /\ rom.data[c] = ImageByte(rom_image, Mod32(c, rom_size))

\* C4, as stated: after load with an image of a power-of-two size, a Byte
\* read of any address below 0x0e000000 returns the image byte at
\* (address & 0x01ffffff) mod logicalSize.
C4_ByteReadBelowChipWindow ==
  (/\ ImageLoaded
   /\ last.op = "read"
   /\ last.size = "Byte"
   /\ BelowChipWindow(last.addr))
    => /\ Mirrored
       /\ last.ret =
            U32(0, ImageByte(rom_image,
                             Mod32(And32(last.addr, U32(511, 65535)), rom_size)))

\* C4, amended: the image buffer is mirrored, and a Byte read of an address
\* below 0x0e000000 returns the mirrored image byte unless an EEPROM is
\* configured and the address lies in its window.
C4_ImageMirrored ==
  ImageLoaded =>
    /\ Mirrored
    /\ (/\ last.op = "read"
        /\ last.size = "Byte"
        /\ BelowChipWindow(last.addr)
        /\ ~(has_eeprom /\ InEepromWindow(last.addr)))
         => last.ret =
              U32(0, ImageByte(rom_image,
                               Mod32(And32(last.addr, U32(511, 65535)), rom_size)))

\* C4 witness: a Byte read of the image beyond its logical size
C4_ReadOfMirror ==
  /\ ImageLoaded
  /\ last.op = "read"
  /\ last.size = "Byte"
  /\ last.dest = "rom"
  /\ Le32(rom_size, And32(last.addr, U32(511, 65535)))

\* C5: when the image has logical size zero, reads of image addresses
\* (below 0x0e000000, beyond offset 0, not in the window of a configured
\* EEPROM) return the open-bus value.
C5_NothingMappedReadsOpenBus ==
  (/\ loaded
   /\ rom_size = Zero
   /\ last.op = "read"
   /\ BelowChipWindow(last.addr)
   /\ And32(last.addr, U32(511, 65535)) # Zero
   /\ ~(has_eeprom /\ InEepromWindow(last.addr)))
    => last.ret = last.instruction

\* everything but the record of the call
cartridge ==
  <<loaded, has_sram, has_eeprom, has_flashrom, rom, ram, eeprom, flashrom,
    memory>>

\* C6: after unload no storage chip is configured (ram_data and ram_size
\* report none and 0, and no address is routed to a storage chip), and
\* unload on an unloaded cartridge leaves the whole state unchanged.
C6_UnloadClearsConfiguration ==
  [][last'.op = "unload" =>
       /\ ram_data' = "nullptr"
       /\ ram_size' = Zero
       /\ \A a \in Addrs : read_dest(a)' \in {"rom", "open"}
       /\ \A a \in Addrs : write_dest(a)' = "none"
       /\ ~loaded => cartridge' = cartridge]_vars

\* C7: at most one of has_sram, has_eeprom and has_flashrom is true.
C7_AtMostOneKind ==
  Cardinality({k \in {"sram", "eeprom", "flashrom"} :
                 \/ k = "sram" /\ has_sram
                 \/ k = "eeprom" /\ has_eeprom
                 \/ k = "flashrom" /\ has_flashrom}) <= 1

\* C7 witness: load has selected a FlashROM on a cartridge whose previous
\* load, not unloaded since, had selected battery RAM
C7_LoadedAnotherKind ==
  /\ last.op = "load"
  /\ has_flashrom
  /\ memory = <<"RAM", "FlashROM">>

\* C8: read, write and power change none of has_sram, has_eeprom,
\* has_flashrom, ram.mask, eeprom.mask and eeprom.test, so every address is
\* routed to the same destination after them as before.
C8_KindIsImmutable ==
  [][last'.op \in {"read", "write", "power"} =>
       /\ config' = config
       /\ \A a \in Addrs : /\ read_dest(a)' = read_dest(a)
                           /\ write_dest(a)' = write_dest(a)]_vars

\* C8 witness: a write has moved the EEPROM engine out of Idle
C8_WriteReachedEngine ==
  /\ last.op = "write"
  /\ last.dest = "eeprom"
  /\ eeprom.mode # "Idle"

\* the storage chips that some enumerated address is routed to
RoutedKinds == {write_dest(a) : a \in Addrs} \ {"none"}

\* C9: ram_data and ram_size expose the buffer and the size of the storage
\* chip the router dispatches to, and (nullptr, 0) when it dispatches to none.
C9_ExposedIsRouted ==
  /\ "ram" \in RoutedKinds => ram_data = "ram.data" /\ ram_size = ram.size
  /\ "eeprom" \in RoutedKinds =>
       ram_data = "eeprom.data" /\ ram_size = eeprom.size
  /\ "flashrom" \in RoutedKinds =>
       ram_data = "flashrom.data" /\ ram_size = flashrom.size
  /\ RoutedKinds = {} => ram_data = "nullptr" /\ ram_size = Zero
  /\ RoutedKinds = {read_dest(a) : a \in Addrs} \ {"rom", "open"}

\* C9 witness: a write went to the EEPROM, whose buffer of the default size
\* is the one exposed
C9_EepromExposed ==
  /\ last.op = "write"
  /\ last.dest = "eeprom"
  /\ ram_data = "eeprom.data"
  /\ ram_size = U32(0, 8192)

\* C10: power puts the EEPROM engine in Idle and the FlashROM engine in
\* Ready, changes no byte of the four buffers, and a second power changes
\* nothing that the first has left.
C10_PowerResetsEngines ==
  [][last'.op = "power" =>
       /\ eeprom'.mode = "Idle"
       /\ eeprom'.shift = <<>>
       /\ flashrom'.mode = "Ready"
       /\ ~flashrom'.identification
       /\ buffers' = buffers
       /\ eeprom_power(eeprom') = eeprom'
       /\ flashrom_power(flashrom') = flashrom']_vars

\* C10 witness: power was called in identification mode
C10_PowerInIdentification ==
  /\ last.op = "power"
  /\ last.engines[3]

\* the number of bytes of an access width
Width(size) == IF size = "Word" THEN 4 ELSE IF size = "Half" THEN 2 ELSE 1

\* bits 8i .. 8i+7 of a word
ByteOfWord(v, i) ==
  CASE i = 0 -> v[2] % 256
    [] i = 1 -> v[2] \div 256
    [] i = 2 -> v[1] % 256
    [] OTHER -> v[1] \div 256

\* a word truncated to an access width
Truncated(v, size) ==
  IF size = "Word" THEN v
  ELSE IF size = "Half" THEN U32(0, v[2])
  ELSE U32(0, v[2] % 256)

\* a bus address with bit 0 (Half) or bits 0-1 (Word) cleared
AlignedAddr(a, size) ==
  IF size = "Word" THEN And32(a, U32(65535, 65532))
  ELSE IF size = "Half" THEN And32(a, U32(65535, 65534))
  ELSE a

\* what was written to battery RAM by the call that returned is what reads
\* of the same bytes return now
WrittenReadsBack ==
  (/\ last.op = "write"
   /\ has_sram /\ InChipWindow(last.addr)
   /\ IsPow2(ram.size))
    => /\ read_ret(last.addr, last.size, Nop) = Truncated(last.word, last.size)
       /\ \A i \in 0 .. Width(last.size) - 1 :
            read_ret(Add32(AlignedAddr(last.addr, last.size), i), "Byte", Nop)
              = U32(0, ByteOfWord(last.word, i))

\* C11: with battery RAM of a power-of-two size, after write(a, w, v) to an
\* address of the 0x0e000000 window, read(a, w) returns v truncated to w and
\* a Byte read of the aligned address plus i returns bits 8i..8i+7 of v; reads
\* and power() leave the bytes of the battery RAM as they are.
C11_RamRoundTrip ==
  /\ []WrittenReadsBack
  /\ [][last'.op \in {"read", "power"} => ram'.data = ram.data]_vars

\* C11 witness: a Word read of battery RAM returns the word written before
C11_ReadBack ==
  /\ last.op = "read"
  /\ last.dest = "ram"
  /\ last.size = "Word"
  /\ IsPow2(ram.size)
  /\ last.ret = W_word

\* the aligned cell of an access of the given width at a buffer offset
AlignedCell(off, size) ==
  {Add32(AlignedAddr(off, size), i) : i \in 0 .. Width(size) - 1}

\* C12: an access that the image or the battery RAM serves behaves as the
\* same access at the address with bit 0 (Half) or bits 0-1 (Word) cleared:
\* a read returns the same value, a write changes the same bytes; it touches
\* no byte outside the aligned cell, and it is no error.
C12_AlignedAccess ==
  [][\A a \in Addrs :
       LET size == last'.size
           al   == AlignedAddr(a, size)
       IN  /\ (/\ last'.op = "read" /\ last'.addr = a
               /\ last'.dest \in {"rom", "ram"})
                => /\ last'.ret = read_ret(al, size, last'.instruction)
                   /\ read_dest(al) = last'.dest
           /\ (/\ last'.op = "write" /\ last'.addr = a
               /\ last'.dest = "ram")
                => /\ ram'.data = write_data(ram.data, ram_offset(al), size, last'.word)
                   /\ write_dest(al) = "ram"
                   /\ \A c \in DOMAIN ram.data :
                        c \notin AlignedCell(ram_offset(a), size)
                          => ram'.data[c] = ram.data[c]
           /\ (/\ last'.op \in {"read", "write"} /\ last'.addr = a
               /\ last'.dest \in {"rom", "ram"})
                => /\ last'.touched \subseteq
                        AlignedCell(IF last'.dest = "ram" THEN ram_offset(a)
                                    ELSE rom_offset(a), size)
                   /\ (~outside(last'.dest, last'.touched)) => ~fault']_vars

\* C12 witness: a Word write to battery RAM at an address with bit 0 set
C12_UnalignedWrite ==
  /\ last.op = "write"
  /\ last.dest = "ram"
  /\ last.size = "Word"
  /\ last.addr[2] % 4 # 0

\* the access of the transfer that the program issued last
Issued == Ops(script)[script.pc]

\* C13: with a FlashROM, the write that completes the program sequence
\* AA, 55, A0 with byte b1 at x makes a read of x return b0 & b1, b0 the byte
\* read before; the write that completes the sector-erase sequence AA, 55,
\* 80, AA, 55, 30 at an address of a sector makes a read of every address of
\* the sector return 0xff; all other bytes stay as they are.
C13_FlashProgramErase ==
  [][(script.kind = "flashrom" /\ script'.pc = script.pc + 1) =>
       \A x \in {A_chip0, A_chip1} :
         LET o == Ops(script)[script.pc + 1]
         IN  /\ (o.tag = "program" /\ o.addr = x)
                  => /\ read_ret(x, "Byte", Nop)' =
                          U32(0, BitAnd(read_ret(x, "Byte", Nop)[2], o.val))
                     /\ \A c \in DOMAIN flashrom.data :
                          c # U32(flashrom.bank, x[2])
                            => flashrom'.data[c] = flashrom.data[c]
             /\ (o.tag = "erase" /\ o.addr = x)
                  => /\ read_ret(x, "Byte", Nop)' = U32(0, 255)
                     /\ \A c \in DOMAIN flashrom.data :
                          flashrom'.data[c] =
                            IF /\ c[1] = flashrom.bank
                               /\ c[2] \div 4096 = x[2] \div 4096
                            THEN 255 ELSE flashrom.data[c]]_vars

\* C13 witness: after the sector of x was erased, x reads 0xff again and the
\* byte programmed in another sector reads as programmed
C13_ErasedAndKept ==
  /\ script.kind = "flashrom"
  /\ script.pc = Len(Ops(script))
  /\ last.op = "read"
  /\ last.dest = "flashrom"
  /\ last.ret = U32(0, script.first[2] % 256)
  /\ flashrom.data[U32(0, script.target[2])] = 255
  /\ script.first = W_word

\* C14: with an EEPROM, a complete write transaction for record k and then
\* a complete read transaction for record k return the 64 data bits written,
\* in the order written, and the engine is in Idle after the 64th bit.
C14_EepromRoundTrip ==
  (/\ script.kind = "eeprom"
   /\ script.pc > 0
   /\ last.op = "read"
   /\ Issued.tag = "data")
    => /\ last.ret = U32(0, DataBits(script.pattern)[Issued.idx])
       /\ Issued.idx = 64 => eeprom.mode = "Idle"

\* C14 witness: the first data bit read back is the 0 that was written
C14_ZeroReadBack ==
  /\ script.kind = "eeprom"
  /\ script.record = 1
  /\ script.pc > 0
  /\ last.op = "read"
  /\ Issued.tag = "data"
  /\ Issued.idx = 1
  /\ last.ret = Zero

\* C17: a bus write that the EEPROM takes is one engine write step with
\* word & 1, whatever the width, bits 1-31 of the word and the address within
\* the window, and changes nothing else; a bus read that the EEPROM serves is
\* one engine read step and returns its bit, whatever the width.
C17_EepromOneBit ==
  [][/\ (last'.op = "write" /\ last'.dest = "eeprom")
          => /\ eeprom' = eeprom_write(eeprom, last'.word[2] % 2, script.abits)
             /\ UNCHANGED <<rom, ram, flashrom, has_sram, has_eeprom, has_flashrom>>
     /\ (last'.op = "read" /\ last'.dest = "eeprom")
          => /\ eeprom' = eeprom_read(eeprom)[2]
             /\ last'.ret = U32(0, eeprom_read(eeprom)[1])
             /\ UNCHANGED <<rom, ram, flashrom, has_sram, has_eeprom, has_flashrom>>]_vars

\* C17 witness: a Word write with bits 1-31 set has delivered a data bit
C17_WideWrite ==
  /\ last.op = "write"
  /\ last.dest = "eeprom"
  /\ last.size = "Word"
  /\ last.word[1] = 65535
  /\ eeprom.mode = "ReceivingWriteData"
  /\ eeprom.count > 0

\* C15: after load has selected battery RAM, EEPROM or FlashROM with size n,
\* and before any bus write, every offset in [0, n) of the buffer of that
\* chip holds 0xff.
C15_ErasedAfterLoad ==
  last.op = "load" =>
    /\ has_sram =>
         \A c \in DOMAIN ram.data : Lt32(c, ram.size) => ram.data[c] = 255
    /\ has_eeprom =>
         \A c \in DOMAIN eeprom.data : Lt32(c, eeprom.size) => eeprom.data[c] = 255
    /\ has_flashrom =>
         \A c \in DOMAIN flashrom.data :
           Lt32(c, flashrom.size) => flashrom.data[c] = 255

\* C15 witness: load has filled the 64 KiB of a FlashROM whose buffer held
\* other values: the bytes beyond 64 KiB still hold them
C15_FlashFilled ==
  /\ last.op = "load"
  /\ has_flashrom
  /\ flashrom.size = U32(1, 0)
  /\ flashrom.data[U32(0, 0)] = 255
  /\ flashrom.data[U32(1, 0)] = 205

\* the EEPROM window that the size of the image selects
InSelectedWindow(a) ==
  IF Lt32(U32(256, 0), rom_size)
  THEN And32(a, U32(4095, 65280)) = U32(3583, 65280)
  ELSE And32(a, U32(3840, 0)) = U32(3328, 0)

\* C16: with an EEPROM, an address is routed to the EEPROM iff
\* (a & 0x0f000000) = 0x0d000000 when the image has at most 16 MiB, and iff
\* (a & 0x0fffff00) = 0x0dffff00 when it has more; every other address below
\* 0x0e000000 is served by the image.
C16_EepromWindow ==
  has_eeprom =>
    /\ \A a \in Addrs :
         /\ read_dest(a) = "eeprom" <=> InSelectedWindow(a)
         /\ write_dest(a) = "eeprom" <=> InSelectedWindow(a)
         /\ (BelowChipWindow(a) /\ ~InSelectedWindow(a)) => read_dest(a) = "rom"
    /\ last.op \in {"read", "write"} =>
         /\ last.dest = "eeprom" <=> InSelectedWindow(last.addr)
         /\ (/\ last.op = "read"
             /\ BelowChipWindow(last.addr)
             /\ ~InSelectedWindow(last.addr)) => last.dest = "rom"

\* C16 witness: with an image of exactly 16 MiB, the EEPROM serves 0x0d000000
C16_WideWindowAt16MiB ==
  /\ has_eeprom
  /\ rom_size = U32(256, 0)
  /\ last.op = "read"
  /\ last.addr = A_eeLo
  /\ last.dest = "eeprom"

\* the address of a write matches no configured storage chip
MatchesNoChip(a) ==
  /\ ~(has_sram /\ InChipWindow(a))
  /\ ~(has_eeprom /\ InEepromWindow(a))
  /\ ~(has_flashrom /\ InChipWindow(a))

\* C18: no bus write changes a byte of the image buffer, and a write whose
\* address matches no configured storage chip changes no buffer and no
\* engine.
C18_ImageReadOnly ==
  [][last'.op = "write" =>
       /\ rom' = rom
       /\ MatchesNoChip(last'.addr) =>
            /\ buffers' = buffers
            /\ ram' = ram
            /\ eeprom' = eeprom
            /\ flashrom' = flashrom]_vars

\* C18 witness: a write into the image, with an EEPROM configured
C18_WriteToImage ==
  /\ last.op = "write"
  /\ has_eeprom
  /\ MatchesNoChip(last.addr)
  /\ rom_image # 0

\* C19: the fill loops of load write only offsets below 32 KiB of the
\* battery-RAM buffer, below 8 KiB of the EEPROM buffer and below 128 KiB of
\* the FlashROM buffer, whatever size the manifest gives.
C19_FillInsideBuffers ==
  [][last'.op = "load" =>
       /\ \A c \in DOMAIN ram.data :
            ~Lt32(c, U32(0, 32768)) => ram'.data[c] = ram.data[c]
       /\ \A c \in DOMAIN eeprom.data :
            ~Lt32(c, U32(0, 8192)) => eeprom'.data[c] = eeprom.data[c]
       /\ \A c \in DOMAIN flashrom.data :
            ~Lt32(c, U32(2, 0)) => flashrom'.data[c] = flashrom.data[c]
       /\ ~fault']_vars


====
